---- MODULE Spec2Model ----
(***************************************************************************)
(* Model of pkg/commands/worktree_mgr.go (WorktreeMgr).                    *)
(*                                                                         *)
(* Every public operation of the manager is synchronous: it issues a       *)
(* sequence of calls to its collaborators (the command executor, the       *)
(* filesystem, the status loader, the branch and submodule managers) and   *)
(* returns.  An operation is one action: it starts from the idle state,    *)
(* computes the whole sequence of collaborator calls the code makes        *)
(* (variable calls, in call order, each with the error it returned) and    *)
(* the value it returns (result, cmdObj).  The collaborators' answers are  *)
(* the action's inputs: the set fail names the fallible calls (by their    *)
(* ordinal among the fallible calls of the operation) that return an       *)
(* error, loaded is the list the status loader returns in no-renames mode. *)
(* Return hands the result to the caller and goes back to idle.            *)
(* The ignore-list file (variable gitignore, its lines) is the one piece   *)
(* of the worktree that is followed from one operation to the next.        *)
(* depthReached is the deepest nesting of DiscardAllFileChanges calls the  *)
(* operation came to (0: no call of it made another).                      *)
(***************************************************************************)
EXTENDS Integers, Sequences, FiniteSets, TLC

VARIABLES pc, op, calls, result, cmdObj, gitignore, depthReached

vars == <<pc, op, calls, result, cmdObj, gitignore, depthReached>>

(***************************************************************************)
(* Bounds of the model.                                                    *)
(***************************************************************************)
MaxCalls == 4   \* fallible calls of one operation that may be made to fail
MaxFiles == 2   \* length of the list the status loader returns
MaxPaths == 3   \* length of the list given to UnStageFile
MaxLeaves == 2  \* file leaves under a directory node
MaxSubmodules == 1  \* configured submodules
MaxIgnoreLines == 3  \* lines of the ignore-list file
MaxDepth == 3   \* nesting of DiscardAllFileChanges at which the model stops unfolding

(***************************************************************************)
(* Errors.  A Go error is modelled by its message; the nil error is Nil.   *)
(***************************************************************************)
Nil == "<nil>"
ErrExpectedRename == "Expected renamed file"
ErrHalfMissing == "Could not find deleted file or new file for file rename"
ErrNestedRename == "Nested rename found"
ErrNoEditor == "No editor defined in config file, $GIT_EDITOR, $VISUAL, $EDITOR, or git config"
ErrTooDeep == "<recursion not unfolded further>"

\* the error the n-th fallible call of an operation returns when it fails
ExecErr(n) == "exit status " \o ToString(n)

(***************************************************************************)
(* File records (models.File) and the sets the inputs are drawn from.      *)
(***************************************************************************)
File(name, prev, ss, staged, conflicts, added, tracked) ==
    [Name |-> name, PreviousName |-> prev, ShortStatus |-> ss,
     HasStagedChanges |-> staged, HasMergeConflicts |-> conflicts,
     Added |-> added, Tracked |-> tracked]

\* a nil *models.File
NoFile == File("<nil>", "", "", FALSE, FALSE, FALSE, FALSE)

IsRename(file) == file.PreviousName # ""

GetIsTracked(file) == file.Tracked

Names == {"a.txt", "b c.txt"}

Statuses == {"AA", "DU", "DD", "AU", "UA", "M ", "??"}

\* records that are not renames: every status with every combination of flags
PlainFiles ==
    {File(n, "", ss, st, co, ad, ~ad) :
        n \in Names, ss \in Statuses, st \in BOOLEAN, co \in BOOLEAN, ad \in BOOLEAN}

\* rename records; the previous name may equal the current one
RenameFiles ==
    {File(n, p, ss, st, FALSE, ad, TRUE) :
        n \in Names, p \in Names, ss \in {"R ", "AA"}, st \in BOOLEAN, ad \in BOOLEAN}

\* the records a no-renames reload may hold: a deleted file, an untracked
\* file, both conflict shapes with a command sequence of their own, and (what
\* the loader should not return) a record that is itself a rename, here of a
\* file to its own name, so that resolving it finds it again
LoadedFiles ==
    {File(n, "", "D ", TRUE, FALSE, FALSE, TRUE) : n \in Names}
    \cup {File(n, "", "??", FALSE, FALSE, TRUE, FALSE) : n \in Names}
    \cup {File(n, "", "AA", TRUE, TRUE, TRUE, FALSE) : n \in Names}
    \cup {File(n, "", "DU", TRUE, TRUE, FALSE, TRUE) : n \in Names}
    \cup {File(n, n, "R ", TRUE, FALSE, FALSE, TRUE) : n \in Names}

SeqsUpTo(S, n) == UNION {[1..k -> S] : k \in 0..n}

LoadedLists == SeqsUpTo(LoadedFiles, MaxFiles)

FailSets == SUBSET (1..MaxCalls)

(***************************************************************************)
(* The collaborators.  A call is recorded with the error it returned.      *)
(***************************************************************************)
Fallible ==
    {"git", "run", "RemoveFile", "os.Remove", "AppendLineToFile",
     "GetConfigs", "StashAndReset", "ResetToRef"}

Ordinal(log) == Cardinality({i \in DOMAIN log : log[i].kind \in Fallible}) + 1

Call(log, kind, arg, fail) ==
    Append(log, [kind |-> kind, arg |-> arg,
                 err |-> IF kind \in Fallible /\ Ordinal(log) \in fail
                         THEN ExecErr(Ordinal(log)) ELSE Nil])

LastErr(log) == log[Len(log)].err

\* oscommands quoting of an argument
Quote(s) == "\"" \o s \o "\""

RunGitCmdFromStr(log, str, fail) == Call(log, "git", str, fail)

NoCmd == [str |-> "<nil>", mode |-> "none"]

Ret(log, err) == [log |-> log, err |-> err, cmd |-> NoCmd, depth |-> 0]

(***************************************************************************)
(* Staging primitives.                                                     *)
(***************************************************************************)
StageFile(log, fileName, fail) ==
    LET l1 == RunGitCmdFromStr(log, "add -- " \o Quote(fileName), fail)
    IN  Ret(l1, LastErr(l1))

StageAll(log, fail) ==
    LET l1 == RunGitCmdFromStr(log, "add -A", fail)
    IN  Ret(l1, LastErr(l1))

UnstageAll(log, fail) ==
    LET l1 == RunGitCmdFromStr(log, "reset", fail)
    IN  Ret(l1, LastErr(l1))

UnStageCmdFormat(reset) == IF reset THEN "reset HEAD -- " ELSE "rm --cached --force -- "

\* the loop of UnStageFile going on to the next name after a failed command
RECURSIVE UnStageLoop_Continue(_, _, _, _, _)
UnStageLoop_Continue(log, fileNames, i, reset, fail) ==
    IF i > Len(fileNames) THEN Ret(log, IF log = <<>> THEN Nil ELSE LastErr(log))
    ELSE UnStageLoop_Continue(
             RunGitCmdFromStr(log, UnStageCmdFormat(reset) \o Quote(fileNames[i]), fail),
             fileNames, i + 1, reset, fail)

RECURSIVE UnStageLoop(_, _, _, _, _)
UnStageLoop(log, fileNames, i, reset, fail) ==
    IF i > Len(fileNames) THEN Ret(log, Nil)
    ELSE LET l1 == RunGitCmdFromStr(log, UnStageCmdFormat(reset) \o Quote(fileNames[i]), fail)
         IN  IF LastErr(l1) # Nil THEN Ret(l1, LastErr(l1))
             ELSE UnStageLoop(l1, fileNames, i + 1, reset, fail)

UnStageFile(log, fileNames, reset, fail) == UnStageLoop(log, fileNames, 1, reset, fail)

(***************************************************************************)
(* Change discarder.                                                       *)
(***************************************************************************)
\* the loop of beforeAndAfterFileForRename over filesWithoutRenames, from
\* record i on: a later record of the same name replaces an earlier one
RECURSIVE FindHalves(_, _, _, _, _)
FindHalves(files, i, file, beforeFile, afterFile) ==
    IF i > Len(files) THEN [beforeFile |-> beforeFile, afterFile |-> afterFile]
    ELSE FindHalves(files, i + 1, file,
                    IF files[i].Name = file.PreviousName THEN files[i] ELSE beforeFile,
                    IF files[i].Name = file.Name THEN files[i] ELSE afterFile)

LoadStatusFiles(log, noRenames) ==
    Call(log, "Load", IF noRenames THEN "NoRenames" ELSE "Renames", {})

Halves(log, before, after, err) ==
    [log |-> log, beforeFile |-> before, afterFile |-> after, err |-> err]

\* beforeAndAfterFileForRename without the nested-rename guard of lines 118-121
beforeAndAfterFileForRename_NoGuard(log, file, loaded) ==
    IF ~IsRename(file) THEN Halves(log, NoFile, NoFile, ErrExpectedRename)
    ELSE LET l1 == LoadStatusFiles(log, TRUE)
             found == FindHalves(loaded, 1, file, NoFile, NoFile)
         IN  IF found.beforeFile = NoFile \/ found.afterFile = NoFile
             THEN Halves(l1, NoFile, NoFile, ErrHalfMissing)
             ELSE Halves(l1, found.beforeFile, found.afterFile, Nil)

beforeAndAfterFileForRename(log, file, loaded) ==
    IF ~IsRename(file) THEN Halves(log, NoFile, NoFile, ErrExpectedRename)
    ELSE LET l1 == LoadStatusFiles(log, TRUE)
             found == FindHalves(loaded, 1, file, NoFile, NoFile)
             beforeFile == found.beforeFile
             afterFile == found.afterFile
         IN  IF beforeFile = NoFile \/ afterFile = NoFile
             THEN Halves(l1, NoFile, NoFile, ErrHalfMissing)
             ELSE IF IsRename(beforeFile) \/ IsRename(afterFile)
             THEN Halves(l1, NoFile, NoFile, ErrNestedRename)
             ELSE Halves(l1, beforeFile, afterFile, Nil)

\* DiscardUnstagedFileChanges issuing the checkout again when it failed
DiscardUnstagedFileChanges_Retry(log, file, fail) ==
    LET l1 == RunGitCmdFromStr(log, "checkout -- " \o Quote(file.Name), fail)
    IN  IF LastErr(l1) = Nil THEN Ret(l1, Nil)
        ELSE LET l2 == RunGitCmdFromStr(l1, "checkout -- " \o Quote(file.Name), fail)
             IN  Ret(l2, LastErr(l2))

\* DiscardUnstagedFileChanges resetting a staged path before the checkout
DiscardUnstagedFileChanges_ResetFirst(log, file, fail) ==
    LET l0 == IF file.HasStagedChanges
              THEN RunGitCmdFromStr(log, "reset -- " \o Quote(file.Name), fail)
              ELSE log
        l1 == RunGitCmdFromStr(l0, "checkout -- " \o Quote(file.Name), fail)
    IN  Ret(l1, LastErr(l1))

DiscardUnstagedFileChanges(log, file, fail) ==
    LET l1 == RunGitCmdFromStr(log, "checkout -- " \o Quote(file.Name), fail)
    IN  Ret(l1, LastErr(l1))

\* DiscardBothAdded going on to the add after a failed checkout
DiscardBothAdded_IgnoreCheckoutErr(log, file, fail) ==
    LET l1 == RunGitCmdFromStr(log, "checkout --ours --  " \o Quote(file.Name), fail)
        l2 == RunGitCmdFromStr(l1, "add " \o Quote(file.Name), fail)
    IN  IF LastErr(l2) # Nil THEN Ret(l2, LastErr(l2)) ELSE Ret(l2, Nil)

\* lines 147-155: both sides added ("AA")
DiscardBothAdded(log, file, fail) ==
    LET l1 == RunGitCmdFromStr(log, "checkout --ours --  " \o Quote(file.Name), fail)
    IN  IF LastErr(l1) # Nil THEN Ret(l1, LastErr(l1))
        ELSE LET l2 == RunGitCmdFromStr(l1, "add " \o Quote(file.Name), fail)
             IN  IF LastErr(l2) # Nil THEN Ret(l2, LastErr(l2)) ELSE Ret(l2, Nil)

\* DiscardDeletedByUs resetting the path before it removes it
DiscardDeletedByUs_ResetFirst(log, file, fail) ==
    LET l1 == RunGitCmdFromStr(log, "reset -- " \o Quote(file.Name), fail)
    IN  IF LastErr(l1) # Nil THEN Ret(l1, LastErr(l1))
        ELSE LET l2 == RunGitCmdFromStr(l1, "rm " \o Quote(file.Name), fail)
             IN  Ret(l2, LastErr(l2))

\* lines 157-159: deleted by us ("DU")
DiscardDeletedByUs(log, file, fail) ==
    LET l1 == RunGitCmdFromStr(log, "rm " \o Quote(file.Name), fail)
    IN  Ret(l1, LastErr(l1))

\* ResetFromIndex resetting whatever the flags are
ResetFromIndex_Always(log, file, fail) ==
    LET l1 == RunGitCmdFromStr(log, "reset -- " \o Quote(file.Name), fail)
    IN  IF LastErr(l1) # Nil THEN Ret(l1, LastErr(l1)) ELSE Ret(l1, Nil)

\* ResetFromIndex resetting for staged changes only
ResetFromIndex_StagedOnly(log, file, fail) ==
    IF file.HasStagedChanges
    THEN LET l1 == RunGitCmdFromStr(log, "reset -- " \o Quote(file.Name), fail)
         IN  IF LastErr(l1) # Nil THEN Ret(l1, LastErr(l1)) ELSE Ret(l1, Nil)
    ELSE Ret(log, Nil)

\* lines 162-166: the reset of the path out of the index
ResetFromIndex(log, file, fail) ==
    IF file.HasStagedChanges \/ file.HasMergeConflicts
    THEN LET l1 == RunGitCmdFromStr(log, "reset -- " \o Quote(file.Name), fail)
         IN  IF LastErr(l1) # Nil THEN Ret(l1, LastErr(l1)) ELSE Ret(l1, Nil)
    ELSE Ret(log, Nil)

\* DiscardWorkingCopy without the early return for "DD" and "AU"
DiscardWorkingCopy_NoStop(log, file, fail) ==
    IF file.Added THEN
        LET l1 == Call(log, "RemoveFile", file.Name, fail)
        IN  Ret(l1, LastErr(l1))
    ELSE DiscardUnstagedFileChanges(log, file, fail)

\* lines 168-175: what follows the reset
DiscardWorkingCopy(log, file, fail) ==
    IF file.ShortStatus = "DD" \/ file.ShortStatus = "AU" THEN Ret(log, Nil)
    ELSE IF file.Added THEN
        LET l1 == Call(log, "RemoveFile", file.Name, fail)
        IN  Ret(l1, LastErr(l1))
    ELSE DiscardUnstagedFileChanges(log, file, fail)

\* lines 145-176: DiscardAllFileChanges for a record that is not a rename
DiscardPlainFile(log, file, fail) ==
    IF file.ShortStatus = "AA" THEN DiscardBothAdded(log, file, fail)
    ELSE IF file.ShortStatus = "DU" THEN DiscardDeletedByUs(log, file, fail)
    ELSE LET r == ResetFromIndex(log, file, fail)
         IN  IF r.err # Nil THEN r ELSE DiscardWorkingCopy(r.log, file, fail)

\* r, returned by a call nested depth deep
Deepest(r, depth) == [r EXCEPT !.depth = IF depth > r.depth THEN depth ELSE r.depth]

\* DiscardAllFileChanges going on to the after half when the discard of the
\* before half failed
DiscardAllFileChanges_IgnoreBeforeErr(log, file, loaded, fail, depth) ==
    IF IsRename(file) THEN
        LET h == beforeAndAfterFileForRename(log, file, loaded)
        IN  IF h.err # Nil THEN Deepest(Ret(h.log, h.err), depth)
            ELSE LET d1 == DiscardPlainFile(h.log, h.beforeFile, fail)
                     d2 == DiscardPlainFile(d1.log, h.afterFile, fail)
                 IN  Deepest(d2, depth + 1)
    ELSE Deepest(DiscardPlainFile(log, file, fail), depth)

\* DiscardAllFileChanges discarding the record itself when its halves are
\* not found
DiscardAllFileChanges_FallThrough(log, file, loaded, fail, depth) ==
    LET h == beforeAndAfterFileForRename(log, file, loaded)
    IN  IF IsRename(file) /\ h.err = Nil THEN
            LET d1 == DiscardPlainFile(h.log, h.beforeFile, fail)
            IN  IF d1.err # Nil THEN Deepest(d1, depth + 1)
                ELSE Deepest(DiscardPlainFile(d1.log, h.afterFile, fail), depth + 1)
        ELSE Deepest(DiscardPlainFile(IF IsRename(file) THEN h.log ELSE log, file, fail),
                     depth)

\* depth is the nesting of the call: 0 for the caller's call.  The code has no
\* such parameter; the model carries it to record the deepest nesting and to
\* stop unfolding beyond MaxDepth.
RECURSIVE DiscardAllFileChanges(_, _, _, _, _)
DiscardAllFileChanges(log, file, loaded, fail, depth) ==
    IF depth > MaxDepth THEN Deepest(Ret(log, ErrTooDeep), depth)
    ELSE IF IsRename(file) THEN
        LET h == beforeAndAfterFileForRename(log, file, loaded)
        IN  IF h.err # Nil THEN Deepest(Ret(h.log, h.err), depth)
            ELSE LET d1 == DiscardAllFileChanges(h.log, h.beforeFile, loaded, fail, depth + 1)
                 IN  IF d1.err # Nil THEN d1
                     ELSE LET d2 == DiscardAllFileChanges(d1.log, h.afterFile, loaded, fail,
                                                          depth + 1)
                          IN  IF d2.err # Nil THEN Deepest(d2, d1.depth)
                              ELSE Deepest(Ret(d2.log, Nil), d1.depth)
    ELSE Deepest(DiscardPlainFile(log, file, fail), depth)

(***************************************************************************)
(* Directory nodes (filetree.FileNode): the node's path and the nodes      *)
(* under it in traversal order, each a directory (File is nil) or a leaf   *)
(* wrapping a file record.                                                 *)
(***************************************************************************)
FileNode(path, file) == [Path |-> path, File |-> file]

DirChildren ==
    {FileNode("dir/sub", NoFile),
     FileNode("dir/a.txt", File("dir/a.txt", "", "D ", TRUE, FALSE, FALSE, TRUE)),
     FileNode("dir/b c.txt", File("dir/b c.txt", "", "??", FALSE, FALSE, TRUE, FALSE)),
     FileNode("dir/m.txt", File("dir/m.txt", "", "AA", TRUE, TRUE, TRUE, TRUE)),
     FileNode("dir/b c.txt", File("dir/b c.txt", "dir/a.txt", "R ", TRUE, FALSE, FALSE, TRUE))}

DirNodes == {[Path |-> "dir", Children |-> c] : c \in SeqsUpTo(DirChildren, MaxLeaves)}

\* what a no-renames reload may hold while a directory is discarded
DirLoadedFiles ==
    {File("dir/a.txt", "", "D ", TRUE, FALSE, FALSE, TRUE),
     File("dir/b c.txt", "", "??", FALSE, FALSE, TRUE, FALSE),
     File("dir/b c.txt", "dir/a.txt", "R ", TRUE, FALSE, FALSE, TRUE)}

DirLoadedLists == SeqsUpTo(DirLoadedFiles, MaxFiles)

HasRenameLeaf(node) ==
    \E i \in DOMAIN node.Children :
        node.Children[i].File # NoFile /\ IsRename(node.Children[i].File)

\* node.ForEachFile(c.DiscardAllFileChanges), from child i on: the callback
\* is called on the file of each leaf in turn (recorded as "ForEachFile.cb")
\* until a call of it returns an error
RECURSIVE ForEachFileDiscard(_, _, _, _, _)
ForEachFileDiscard(log, node, i, loaded, fail) ==
    IF i > Len(node.Children) THEN Ret(log, Nil)
    ELSE IF node.Children[i].File = NoFile
    THEN ForEachFileDiscard(log, node, i + 1, loaded, fail)
    ELSE LET l1 == Call(log, "ForEachFile.cb", node.Children[i].File.Name, {})
             d == DiscardAllFileChanges(l1, node.Children[i].File, loaded, fail, 0)
         IN  IF d.err # Nil THEN d
             ELSE ForEachFileDiscard(d.log, node, i + 1, loaded, fail)

\* ForEachFile with DiscardUnstagedFileChanges for its callback
RECURSIVE ForEachFileDiscardUnstaged(_, _, _, _)
ForEachFileDiscardUnstaged(log, node, i, fail) ==
    IF i > Len(node.Children) THEN Ret(log, Nil)
    ELSE IF node.Children[i].File = NoFile
    THEN ForEachFileDiscardUnstaged(log, node, i + 1, fail)
    ELSE LET l1 == Call(log, "ForEachFile.cb", node.Children[i].File.Name, {})
             d == DiscardUnstagedFileChanges(l1, node.Children[i].File, fail)
         IN  IF d.err # Nil THEN d
             ELSE ForEachFileDiscardUnstaged(d.log, node, i + 1, fail)

\* DiscardAllDirChanges handing the wrong discard to ForEachFile
DiscardAllDirChanges_UnstagedOnly(log, node, loaded, fail) ==
    ForEachFileDiscardUnstaged(log, node, 1, fail)

DiscardAllDirChanges(log, node, loaded, fail) ==
    ForEachFileDiscard(log, node, 1, loaded, fail)

\* the test removeUntrackedDirFiles gives to GetPathsMatching
IsUntrackedFile(n) == n.File # NoFile /\ ~GetIsTracked(n.File)

\* node.GetPathsMatching(IsUntrackedFile), from child i on: the paths of the
\* nodes that pass the test, in traversal order
RECURSIVE GetUntrackedPaths(_, _)
GetUntrackedPaths(node, i) ==
    IF i > Len(node.Children) THEN <<>>
    ELSE IF IsUntrackedFile(node.Children[i])
    THEN <<node.Children[i].Path>> \o GetUntrackedPaths(node, i + 1)
    ELSE GetUntrackedPaths(node, i + 1)

RECURSIVE RemoveLoop(_, _, _, _)
RemoveLoop(log, paths, i, fail) ==
    IF i > Len(paths) THEN Ret(log, Nil)
    ELSE LET l1 == Call(log, "os.Remove", paths[i], fail)
         IN  IF LastErr(l1) # Nil THEN Ret(l1, LastErr(l1))
             ELSE RemoveLoop(l1, paths, i + 1, fail)

removeUntrackedDirFiles(log, node, fail) ==
    RemoveLoop(log, GetUntrackedPaths(node, 1), 1, fail)

\* DiscardUnstagedDirChanges checking the directory out before it removes
\* the untracked leaves
DiscardUnstagedDirChanges_CheckoutFirst(log, node, fail) ==
    LET l1 == RunGitCmdFromStr(log, "checkout -- " \o Quote(node.Path), fail)
    IN  IF LastErr(l1) # Nil THEN Ret(l1, LastErr(l1))
        ELSE removeUntrackedDirFiles(l1, node, fail)

DiscardUnstagedDirChanges(log, node, fail) ==
    LET r == removeUntrackedDirFiles(log, node, fail)
    IN  IF r.err # Nil THEN r
        ELSE LET l1 == RunGitCmdFromStr(r.log, "checkout -- " \o Quote(node.Path), fail)
             IN  IF LastErr(l1) # Nil THEN Ret(l1, LastErr(l1)) ELSE Ret(l1, Nil)

(***************************************************************************)
(* Ignore, checkout from a commit, removal, reset and clean.               *)
(***************************************************************************)
\* Ignore appending the quoted filename
Ignore_Quoted(log, filename, fail) ==
    LET l1 == Call(log, "AppendLineToFile",
                   [file |-> ".gitignore", line |-> Quote(filename)], fail)
    IN  Ret(l1, LastErr(l1))

Ignore(log, filename, fail) ==
    LET l1 == Call(log, "AppendLineToFile", [file |-> ".gitignore", line |-> filename], fail)
    IN  Ret(l1, LastErr(l1))

\* the lines the calls of log from call i on have appended to the file: one
\* line for each AppendLineToFile on it that succeeded
RECURSIVE AppendedLines(_, _, _)
AppendedLines(log, i, file) ==
    IF i > Len(log) THEN <<>>
    ELSE (IF log[i].kind = "AppendLineToFile" /\ log[i].err = Nil /\ log[i].arg.file = file
          THEN <<log[i].arg.line>> ELSE <<>>)
         \o AppendedLines(log, i + 1, file)

CheckoutFile(log, commitSha, fileName, fail) ==
    LET l1 == RunGitCmdFromStr(log, "checkout " \o commitSha \o " " \o fileName, fail)
    IN  Ret(l1, LastErr(l1))

DiscardAnyUnstagedFileChanges(log, fail) ==
    LET l1 == RunGitCmdFromStr(log, "checkout -- .", fail)
    IN  Ret(l1, LastErr(l1))

RemoveTrackedFiles(log, name, fail) ==
    LET l1 == RunGitCmdFromStr(log, "rm -r --cached " \o name, fail)
    IN  Ret(l1, LastErr(l1))

RemoveUntrackedFiles(log, fail) ==
    LET l1 == RunGitCmdFromStr(log, "clean -fd", fail)
    IN  Ret(l1, LastErr(l1))

\* ResetAndClean going on to the hard reset after a failed StashAndReset
ResetAndClean_IgnoreStashErr(log, nSubmodules, fail) ==
    LET l1 == Call(log, "GetConfigs", "", fail)
    IN  IF LastErr(l1) # Nil THEN Ret(l1, LastErr(l1))
        ELSE
        LET l2 == IF nSubmodules > 0
                  THEN Call(l1, "StashAndReset", ToString(nSubmodules), fail)
                  ELSE l1
            l3 == Call(l2, "ResetToRef", "HEAD HARD", fail)
        IN  IF LastErr(l3) # Nil THEN Ret(l3, LastErr(l3))
            ELSE RemoveUntrackedFiles(l3, fail)

\* ResetAndClean going on after a failed query of the submodule configurations
ResetAndClean_IgnoreConfigsErr(log, nSubmodules, fail) ==
    LET l1 == Call(log, "GetConfigs", "", fail)
        l2 == IF nSubmodules > 0
              THEN Call(l1, "StashAndReset", ToString(nSubmodules), fail)
              ELSE l1
    IN  IF nSubmodules > 0 /\ LastErr(l2) # Nil THEN Ret(l2, LastErr(l2))
        ELSE LET l3 == Call(l2, "ResetToRef", "HEAD HARD", fail)
             IN  IF LastErr(l3) # Nil THEN Ret(l3, LastErr(l3))
                 ELSE RemoveUntrackedFiles(l3, fail)

\* nSubmodules is len(submoduleConfigs) as the submodule manager reports it
ResetAndClean(log, nSubmodules, fail) ==
    LET l1 == Call(log, "GetConfigs", "", fail)
    IN  IF LastErr(l1) # Nil THEN Ret(l1, LastErr(l1))
        ELSE
        LET l2 == IF nSubmodules > 0
                  THEN Call(l1, "StashAndReset", ToString(nSubmodules), fail)
                  ELSE l1
        IN  IF nSubmodules > 0 /\ LastErr(l2) # Nil THEN Ret(l2, LastErr(l2))
            ELSE LET l3 == Call(l2, "ResetToRef", "HEAD HARD", fail)
                 IN  IF LastErr(l3) # Nil THEN Ret(l3, LastErr(l3))
                     ELSE RemoveUntrackedFiles(l3, fail)

(***************************************************************************)
(* Editor resolver.  env holds what each source answers when asked.        *)
(***************************************************************************)
Editors == {"", "nano", "emacs"}

EditorEnvs ==
    [EditCommand : Editors, CoreEditor : Editors, GIT_EDITOR : Editors,
     VISUAL : Editors, EDITOR : Editors]

\* a lookup that is made whatever was found before it
Lookup_Eager(state, kind, arg, value) ==
    [log |-> Call(state.log, kind, arg, {}),
     editor |-> IF state.editor = "" THEN value ELSE state.editor]

\* a lookup that is made only while no editor is found yet
Lookup(state, kind, arg, value) ==
    IF state.editor = ""
    THEN [log |-> Call(state.log, kind, arg, {}), editor |-> value]
    ELSE state

BuildShellCmdObj(str) == [str |-> str, mode |-> "shell"]

BuildGitCmdObjFromStr(str) == [str |-> str, mode |-> "git"]

\* EditFileCmdObj asking $EDITOR before $VISUAL
EditFileCmdObj_EditorBeforeVisual(log, filename, env, fail) ==
    LET s1 == [log |-> Call(log, "GetUserConfig", "OS.EditCommand", {}),
               editor |-> env.EditCommand]
        s2 == Lookup(s1, "GetConfigValue", "core.editor", env.CoreEditor)
        s3 == Lookup(s2, "Getenv", "GIT_EDITOR", env.GIT_EDITOR)
        s4 == Lookup(s3, "Getenv", "EDITOR", env.EDITOR)
        s5 == Lookup(s4, "Getenv", "VISUAL", env.VISUAL)
        l6 == Call(s5.log, "run", "which vi", fail)
        s6 == IF s5.editor = ""
              THEN [log |-> l6, editor |-> IF LastErr(l6) = Nil THEN "vi" ELSE ""]
              ELSE s5
    IN  IF s6.editor = ""
        THEN Ret(s6.log, ErrNoEditor)
        ELSE [Ret(s6.log, Nil) EXCEPT
                 !.cmd = BuildShellCmdObj(s6.editor \o " " \o Quote(filename))]

EditFileCmdObj(log, filename, env, fail) ==
    LET s1 == [log |-> Call(log, "GetUserConfig", "OS.EditCommand", {}),
               editor |-> env.EditCommand]
        s2 == Lookup(s1, "GetConfigValue", "core.editor", env.CoreEditor)
        s3 == Lookup(s2, "Getenv", "GIT_EDITOR", env.GIT_EDITOR)
        s4 == Lookup(s3, "Getenv", "VISUAL", env.VISUAL)
        s5 == Lookup(s4, "Getenv", "EDITOR", env.EDITOR)
        l6 == Call(s5.log, "run", "which vi", fail)
        s6 == IF s5.editor = ""
              THEN [log |-> l6, editor |-> IF LastErr(l6) = Nil THEN "vi" ELSE ""]
              ELSE s5
    IN  IF s6.editor = ""
        THEN Ret(s6.log, ErrNoEditor)
        ELSE [Ret(s6.log, Nil) EXCEPT
                 !.cmd = BuildShellCmdObj(s6.editor \o " " \o Quote(filename))]

OpenMergeToolCmdObj(log) ==
    [Ret(log, Nil) EXCEPT !.cmd = BuildGitCmdObjFromStr("mergetool")]

(***************************************************************************)
(* State machine.                                                          *)
(***************************************************************************)
Init ==
    /\ pc = "idle"
    /\ op = [name |-> "none"]
    /\ calls = <<>>
    /\ result = Nil
    /\ cmdObj = NoCmd
    /\ gitignore = <<>>
    /\ depthReached = 0

Finish(o, r) ==
    /\ pc' = "done"
    /\ op' = o
    /\ calls' = r.log
    /\ result' = r.err
    /\ cmdObj' = r.cmd
    /\ gitignore' = gitignore \o AppendedLines(r.log, 1, ".gitignore")
    /\ depthReached' = r.depth

DoStageFile ==
    /\ pc = "idle"
    /\ \E n \in Names, fail \in FailSets :
         Finish([name |-> "StageFile", fileName |-> n, fail |-> fail],
                StageFile(<<>>, n, fail))

DoStageAll ==
    /\ pc = "idle"
    /\ \E fail \in FailSets :
         Finish([name |-> "StageAll", fail |-> fail], StageAll(<<>>, fail))

DoUnstageAll ==
    /\ pc = "idle"
    /\ \E fail \in FailSets :
         Finish([name |-> "UnstageAll", fail |-> fail], UnstageAll(<<>>, fail))

DoUnStageFile ==
    /\ pc = "idle"
    /\ \E fileNames \in SeqsUpTo(Names, MaxPaths), reset \in BOOLEAN, fail \in FailSets :
         Finish([name |-> "UnStageFile", fileNames |-> fileNames, reset |-> reset,
                 fail |-> fail],
                UnStageFile(<<>>, fileNames, reset, fail))

DoDiscardAllFileChanges ==
    /\ pc = "idle"
    /\ \E file \in PlainFiles \cup RenameFiles, fail \in FailSets :
         \E loaded \in (IF IsRename(file) THEN LoadedLists ELSE {<<>>}) :
            Finish([name |-> "DiscardAllFileChanges", file |-> file, loaded |-> loaded,
                    fail |-> fail],
                   DiscardAllFileChanges(<<>>, file, loaded, fail, 0))

DoDiscardUnstagedFileChanges ==
    /\ pc = "idle"
    /\ \E file \in PlainFiles \cup RenameFiles, fail \in FailSets :
         Finish([name |-> "DiscardUnstagedFileChanges", file |-> file, fail |-> fail],
                DiscardUnstagedFileChanges(<<>>, file, fail))

DoDiscardAllDirChanges ==
    /\ pc = "idle"
    /\ \E node \in DirNodes, fail \in FailSets :
         \E loaded \in (IF HasRenameLeaf(node) THEN DirLoadedLists ELSE {<<>>}) :
            Finish([name |-> "DiscardAllDirChanges", node |-> node, loaded |-> loaded,
                    fail |-> fail],
                   DiscardAllDirChanges(<<>>, node, loaded, fail))

DoDiscardUnstagedDirChanges ==
    /\ pc = "idle"
    /\ \E node \in DirNodes, fail \in FailSets :
         Finish([name |-> "DiscardUnstagedDirChanges", node |-> node, fail |-> fail],
                DiscardUnstagedDirChanges(<<>>, node, fail))

DoIgnore ==
    /\ pc = "idle"
    /\ Len(gitignore) < MaxIgnoreLines
    /\ \E n \in Names, fail \in FailSets :
         Finish([name |-> "Ignore", filename |-> n, fail |-> fail], Ignore(<<>>, n, fail))

DoCheckoutFile ==
    /\ pc = "idle"
    /\ \E sha \in {"abc123"}, n \in Names, fail \in FailSets :
         Finish([name |-> "CheckoutFile", commitSha |-> sha, fileName |-> n, fail |-> fail],
                CheckoutFile(<<>>, sha, n, fail))

DoDiscardAnyUnstagedFileChanges ==
    /\ pc = "idle"
    /\ \E fail \in FailSets :
         Finish([name |-> "DiscardAnyUnstagedFileChanges", fail |-> fail],
                DiscardAnyUnstagedFileChanges(<<>>, fail))

DoRemoveTrackedFiles ==
    /\ pc = "idle"
    /\ \E n \in Names, fail \in FailSets :
         Finish([name |-> "RemoveTrackedFiles", fileName |-> n, fail |-> fail],
                RemoveTrackedFiles(<<>>, n, fail))

DoRemoveUntrackedFiles ==
    /\ pc = "idle"
    /\ \E fail \in FailSets :
         Finish([name |-> "RemoveUntrackedFiles", fail |-> fail],
                RemoveUntrackedFiles(<<>>, fail))

DoResetAndClean ==
    /\ pc = "idle"
    /\ \E n \in 0..MaxSubmodules, fail \in FailSets :
         Finish([name |-> "ResetAndClean", nSubmodules |-> n, fail |-> fail],
                ResetAndClean(<<>>, n, fail))

DoEditFileCmdObj ==
    /\ pc = "idle"
    /\ \E n \in Names, env \in EditorEnvs, fail \in FailSets :
         Finish([name |-> "EditFileCmdObj", filename |-> n, env |-> env, fail |-> fail],
                EditFileCmdObj(<<>>, n, env, fail))

DoOpenMergeToolCmdObj ==
    /\ pc = "idle"
    /\ Finish([name |-> "OpenMergeToolCmdObj"], OpenMergeToolCmdObj(<<>>))

DoLoadStatusFiles ==
    /\ pc = "idle"
    /\ \E noRenames \in BOOLEAN :
         Finish([name |-> "LoadStatusFiles", noRenames |-> noRenames],
                Ret(LoadStatusFiles(<<>>, noRenames), Nil))

\* the caller takes the result; the manager keeps nothing between operations
Return ==
    /\ pc = "done"
    /\ pc' = "idle"
    /\ op' = [name |-> "none"]
    /\ calls' = <<>>
    /\ result' = Nil
    /\ cmdObj' = NoCmd
    /\ depthReached' = 0
    /\ UNCHANGED gitignore

\* the operations that issue commands or build command objects
Next ==
    \/ DoStageFile
    \/ DoStageAll
    \/ DoUnstageAll
    \/ DoUnStageFile
    \/ DoDiscardAllFileChanges
    \/ DoDiscardUnstagedFileChanges
    \/ DoDiscardAllDirChanges
    \/ DoDiscardUnstagedDirChanges
    \/ DoCheckoutFile
    \/ DoDiscardAnyUnstagedFileChanges
    \/ DoRemoveTrackedFiles
    \/ DoRemoveUntrackedFiles
    \/ DoResetAndClean
    \/ DoEditFileCmdObj
    \/ DoOpenMergeToolCmdObj
    \/ DoLoadStatusFiles
    \/ Return

Spec == Init /\ [][Next]_vars

\* Ignore among the operations that take a whole tree or one name: here the
\* ignore-list file grows, up to MaxIgnoreLines lines
NextIgnore ==
    \/ DoIgnore
    \/ DoStageFile
    \/ DoStageAll
    \/ DoUnstageAll
    \/ DoCheckoutFile
    \/ DoDiscardAnyUnstagedFileChanges
    \/ DoRemoveTrackedFiles
    \/ DoRemoveUntrackedFiles
    \/ DoResetAndClean
    \/ DoOpenMergeToolCmdObj
    \/ DoLoadStatusFiles
    \/ Return

SpecIgnore == Init /\ [][NextIgnore]_vars

(***************************************************************************)
(* Properties.                                                             *)
(***************************************************************************)
Done(name) == pc = "done" /\ op.name = name

CallsOfKind(kind) == {i \in DOMAIN calls : calls[i].kind = kind}

\* a discard of one record that is not a rename
DonePlain == Done("DiscardAllFileChanges") /\ op.file.PreviousName = ""

\* a discard of one rename record
DoneRename == Done("DiscardAllFileChanges") /\ op.file.PreviousName # ""

HasNamed(files, name) == \E i \in DOMAIN files : files[i].Name = name

\* the record of that name the rename is matched with: the last one in the list
Matched(files, name) ==
    files[CHOOSE i \in DOMAIN files :
            /\ files[i].Name = name
            /\ \A j \in DOMAIN files : files[j].Name = name => j <= i]

Unresolvable(files, file) ==
    \/ ~HasNamed(files, file.PreviousName)
    \/ ~HasNamed(files, file.Name)
    \/ Matched(files, file.PreviousName).PreviousName # ""
    \/ Matched(files, file.Name).PreviousName # ""

\* C1: discarding a rename record reloads the status in no-renames mode
\* exactly once over the whole operation, the discards of the two halves
\* included, and returns a rename-resolution error whenever the reloaded list
\* has no record named previous-name, none named current-name, or a matched
\* record that is itself a rename.
C1_RenameReloadsOnce ==
    DoneRename =>
        /\ Cardinality(CallsOfKind("Load")) = 1
        /\ \A i \in CallsOfKind("Load") : calls[i].arg = "NoRenames"
        /\ Unresolvable(op.loaded, op.file) => result \in {ErrHalfMissing, ErrNestedRename}

\* a rename whose halves resolved and were both discarded
C1_Witness ==
    /\ DoneRename
    /\ ~Unresolvable(op.loaded, op.file)
    /\ op.file.PreviousName # op.file.Name
    /\ Len(calls) >= 3
    /\ result = Nil

\* C2: for a record that is not a rename with short status "AA" the discard
\* issues checkout-ours and then add for the path and nothing else: a failed
\* checkout-ours is returned with no add issued, a failed add is returned, and
\* no third call is made whatever the flags are.
C2_BothAddedTwoCommands ==
    (DonePlain /\ op.file.ShortStatus = "AA") =>
        LET q == Quote(op.file.Name)
        IN  /\ Len(calls) \in {1, 2}
            /\ calls[1].kind = "git" /\ calls[1].arg = "checkout --ours --  " \o q
            /\ calls[1].err # Nil => Len(calls) = 1 /\ result = calls[1].err
            /\ calls[1].err = Nil =>
                  /\ Len(calls) = 2
                  /\ calls[2].kind = "git" /\ calls[2].arg = "add " \o q
                  /\ result = calls[2].err

\* an "AA" record with every flag set whose add failed after the checkout
C2_Witness ==
    /\ DonePlain /\ op.file.ShortStatus = "AA"
    /\ op.file.HasStagedChanges /\ op.file.HasMergeConflicts /\ op.file.Added
    /\ Len(calls) = 2 /\ calls[1].err = Nil /\ calls[2].err # Nil

\* C3: for a record that is not a rename with short status "DU" the discard
\* issues exactly one call, the rm of the path, and returns its result,
\* whatever the flags are.
C3_DeletedByUsOneRemoval ==
    (DonePlain /\ op.file.ShortStatus = "DU") =>
        /\ Len(calls) = 1
        /\ calls[1].kind = "git" /\ calls[1].arg = "rm " \o Quote(op.file.Name)
        /\ result = calls[1].err

\* a "DU" record, staged, conflicted and added, whose rm succeeded
C3_Witness ==
    /\ DonePlain /\ op.file.ShortStatus = "DU"
    /\ op.file.HasStagedChanges /\ op.file.HasMergeConflicts /\ op.file.Added
    /\ Len(calls) = 1 /\ result = Nil

\* C4, as claimed: every record with Added and without staged changes is
\* deleted from disk with no version-control command, whatever its short
\* status, conflict flag and previous name are.
C4_AddedUnstagedAlwaysDeleted ==
    (Done("DiscardAllFileChanges") /\ op.file.Added /\ ~op.file.HasStagedChanges) =>
        /\ \E i \in DOMAIN calls : calls[i].kind = "RemoveFile" /\ calls[i].arg = op.file.Name
        /\ CallsOfKind("git") = {}

\* C4, amended: a record that is not a rename, with Added, without staged
\* changes, without merge conflicts and with a short status other than AA, DU,
\* DD and AU, is deleted from disk by the one call the discard makes; no
\* version-control command is issued and the deletion's result is returned.
C4_AddedUnstagedDeleted ==
    (/\ DonePlain
     /\ op.file.Added /\ ~op.file.HasStagedChanges /\ ~op.file.HasMergeConflicts
     /\ op.file.ShortStatus \notin {"AA", "DU", "DD", "AU"}) =>
        /\ Len(calls) = 1
        /\ calls[1].kind = "RemoveFile" /\ calls[1].arg = op.file.Name
        /\ result = calls[1].err

\* an untracked file deleted from disk
C4_Witness ==
    /\ DonePlain
    /\ op.file.Added /\ ~op.file.HasStagedChanges /\ ~op.file.HasMergeConflicts
    /\ op.file.ShortStatus = "??"
    /\ Len(calls) = 1 /\ calls[1].kind = "RemoveFile" /\ result = Nil

\* C5: for a record that is not a rename with short status "DD" or "AU" the
\* discard resets the path out of the index when the record has staged
\* changes or merge conflicts, and then stops: no checkout and no deletion
\* from disk follows, even for an added file.
C5_BothDeletedStopsAfterReset ==
    (DonePlain /\ op.file.ShortStatus \in {"DD", "AU"}) =>
        IF op.file.HasStagedChanges \/ op.file.HasMergeConflicts
        THEN /\ Len(calls) = 1
             /\ calls[1].kind = "git" /\ calls[1].arg = "reset -- " \o Quote(op.file.Name)
             /\ result = calls[1].err
        ELSE calls = <<>> /\ result = Nil

\* an added "DD" record whose reset succeeded: nothing follows the reset
C5_Witness ==
    /\ DonePlain /\ op.file.ShortStatus = "DD"
    /\ op.file.Added /\ op.file.HasStagedChanges
    /\ Len(calls) = 1 /\ result = Nil

\* C6: UnStageFile issues one command per name in list order, the cached
\* removal or (reset = true) the reset to HEAD, up to and including the first
\* name whose command fails, and returns that command's error; nothing is
\* issued for the names after it and nothing to undo the names before it.
C6_UnStageStopsAtFirstFailure ==
    Done("UnStageFile") =>
        LET names == op.fileNames
            fmt == IF op.reset THEN "reset HEAD -- " ELSE "rm --cached --force -- "
            failing == {i \in DOMAIN names : i \in op.fail}
            stop == IF failing = {} THEN Len(names)
                    ELSE CHOOSE i \in failing : \A j \in failing : i <= j
        IN  /\ Len(calls) = stop
            /\ \A i \in DOMAIN calls :
                  /\ calls[i].kind = "git" /\ calls[i].arg = fmt \o Quote(names[i])
                  /\ i < stop => calls[i].err = Nil
            /\ result = IF failing = {} THEN Nil ELSE calls[stop].err
            /\ failing # {} => result # Nil

\* two names, cached removal: the first command succeeded, the second failed
C6_Witness ==
    /\ Done("UnStageFile")
    /\ op.fileNames = <<"b c.txt", "a.txt">> /\ ~op.reset
    /\ Len(calls) = 2 /\ calls[1].err = Nil /\ calls[2].err # Nil
    /\ result = calls[2].err

\* the editor sources in their order; vi counts when the probe would succeed
EditorCandidates ==
    <<op.env.EditCommand, op.env.CoreEditor, op.env.GIT_EDITOR, op.env.VISUAL,
      op.env.EDITOR, IF 1 \in op.fail THEN "" ELSE "vi">>

FirstNonEmpty(c) ==
    IF \A i \in DOMAIN c : c[i] = "" THEN ""
    ELSE c[CHOOSE i \in DOMAIN c : c[i] # "" /\ \A j \in DOMAIN c : c[j] # "" => i <= j]

\* C7: EditFileCmdObj takes the first non-empty of the user's edit command,
\* core.editor, GIT_EDITOR, VISUAL, EDITOR and "vi" when the vi probe
\* succeeds; it returns the no-editor error and no command object exactly when
\* all six are empty or unavailable, and otherwise a shell-mode command object
\* of the editor and the quoted filename.
C7_EditorFirstNonEmpty ==
    Done("EditFileCmdObj") =>
        LET editor == FirstNonEmpty(EditorCandidates)
        IN  IF editor = ""
            THEN result = ErrNoEditor /\ cmdObj = NoCmd
            ELSE /\ result = Nil
                 /\ cmdObj = [str |-> editor \o " " \o Quote(op.filename), mode |-> "shell"]

\* only VISUAL and EDITOR are set, to different editors: VISUAL's is taken
C7_Witness ==
    /\ Done("EditFileCmdObj")
    /\ op.env.EditCommand = "" /\ op.env.CoreEditor = "" /\ op.env.GIT_EDITOR = ""
    /\ op.env.VISUAL = "emacs" /\ op.env.EDITOR = "nano"
    /\ op.filename = "b c.txt"
    /\ cmdObj = [str |-> "emacs \"b c.txt\"", mode |-> "shell"]

\* C8: ResetAndClean calls stash-and-reset (only with one or more submodules
\* configured), the hard reset to HEAD and the removal of untracked files in
\* this order, each only after the one before it succeeded: a failed
\* stash-and-reset is followed by neither, and the removal follows only a
\* successful hard reset.
C8_ResetAndCleanOrder ==
    Done("ResetAndClean") =>
        LET steps == (IF op.nSubmodules > 0 THEN <<"StashAndReset">> ELSE <<>>)
                     \o <<"ResetToRef", "git">>
            rest == SubSeq(calls, 2, Len(calls))
        IN  /\ calls[1].kind = "GetConfigs"
            /\ Len(rest) <= Len(steps)
            /\ \A i \in DOMAIN rest : rest[i].kind = steps[i]
            /\ \A i \in DOMAIN calls :
                  /\ i < Len(calls) => calls[i].err = Nil
                  /\ calls[i].kind = "git" => calls[i].arg = "clean -fd"
                  /\ calls[i].kind = "ResetToRef" => calls[i].arg = "HEAD HARD"
            /\ LastErr(calls) = Nil => Len(rest) = Len(steps)
            /\ op.nSubmodules = 0 => CallsOfKind("StashAndReset") = {}
            /\ result = LastErr(calls)

\* submodules are configured and stash-and-reset failed: nothing follows it
C8_Witness ==
    /\ Done("ResetAndClean")
    /\ op.nSubmodules > 0
    /\ Len(calls) = 2 /\ calls[2].kind = "StashAndReset" /\ calls[2].err # Nil
    /\ result = calls[2].err

\* the children of the node that are untracked file leaves
UntrackedLeaves(node) ==
    {i \in DOMAIN node.Children :
        node.Children[i].File # NoFile /\ ~node.Children[i].File.Tracked}

\* C9: in DiscardUnstagedDirChanges every deletion of an untracked leaf comes
\* before the checkout of the directory; the checkout is issued at most once
\* and only after every untracked leaf under the node was deleted with
\* success; nothing but untracked leaves is deleted.
C9_UntrackedRemovedBeforeCheckout ==
    Done("DiscardUnstagedDirChanges") =>
        LET untracked == UntrackedLeaves(op.node)
            removals == CallsOfKind("os.Remove")
            checkouts == CallsOfKind("git")
        IN  /\ \A i \in removals, j \in checkouts : i < j
            /\ Cardinality(checkouts) <= 1
            /\ DOMAIN calls = removals \cup checkouts
            /\ \A i \in removals :
                  \E k \in untracked : calls[i].arg = op.node.Children[k].Path
            /\ \A j \in checkouts :
                  /\ calls[j].arg = "checkout -- " \o Quote(op.node.Path)
                  /\ Cardinality(removals) = Cardinality(untracked)
                  /\ \A k \in untracked :
                        \E i \in removals : calls[i].arg = op.node.Children[k].Path
                  /\ \A i \in removals : calls[i].err = Nil

\* a tracked and an untracked leaf: the untracked one is deleted, then the
\* directory is checked out
C9_Witness ==
    /\ Done("DiscardUnstagedDirChanges")
    /\ Len(op.node.Children) = 2
    /\ Cardinality(UntrackedLeaves(op.node)) = 1
    /\ Len(calls) = 2
    /\ calls[1].kind = "os.Remove" /\ calls[2].kind = "git"
    /\ result = Nil

Commands == {"git", "run"}

\* C10, as claimed: in every operation a failed external command, the vi
\* probe of EditFileCmdObj included, is the last call of the operation and its
\* error is what the operation returns.
C10_EveryCommandErrorReturned ==
    pc = "done" =>
        \A i \in DOMAIN calls :
            (calls[i].kind \in Commands /\ calls[i].err # Nil) =>
                i = Len(calls) /\ result = calls[i].err

\* C10, amended: in every operation a failed external command is the last
\* call of the operation (it is not issued again and nothing follows it) and
\* the operation returns exactly its error, except for the vi probe of
\* EditFileCmdObj: a failed probe is the last call too, but means that vi is
\* not available, and EditFileCmdObj returns the no-editor error and no
\* command object.
C10_CommandErrorReturnedButProbe ==
    pc = "done" =>
        \A i \in DOMAIN calls :
            (calls[i].kind \in Commands /\ calls[i].err # Nil) =>
                /\ i = Len(calls)
                /\ IF calls[i].kind = "run"
                   THEN op.name = "EditFileCmdObj" /\ result = ErrNoEditor /\ cmdObj = NoCmd
                   ELSE result = calls[i].err

\* the vi probe failed
C10_Witness ==
    /\ Done("EditFileCmdObj")
    /\ calls # <<>>
    /\ calls[Len(calls)].kind = "run" /\ calls[Len(calls)].err # Nil
    /\ result = ErrNoEditor

\* what the discard of a record that is not a rename issues when nothing
\* fails, as <<kind, arg>> pairs
ExpectedCmds(file) ==
    LET q == Quote(file.Name)
    IN  IF file.ShortStatus = "AA"
        THEN <<(<<"git", "checkout --ours --  " \o q>>), (<<"git", "add " \o q>>)>>
        ELSE IF file.ShortStatus = "DU" THEN <<(<<"git", "rm " \o q>>)>>
        ELSE (IF file.HasStagedChanges \/ file.HasMergeConflicts
              THEN <<(<<"git", "reset -- " \o q>>)>> ELSE <<>>)
             \o (IF file.ShortStatus \in {"DD", "AU"} THEN <<>>
                 ELSE IF file.Added THEN <<(<<"RemoveFile", file.Name>>)>>
                 ELSE <<(<<"git", "checkout -- " \o q>>)>>)

\* seg is a run of the calls cmds: every call but the last succeeded
RunOf(seg, cmds) ==
    /\ Len(seg) <= Len(cmds)
    /\ \A i \in DOMAIN seg :
          /\ seg[i].kind = cmds[i][1] /\ seg[i].arg = cmds[i][2]
          /\ i < Len(seg) => seg[i].err = Nil

\* a run that was made to the end, with success
CompleteRunOf(seg, cmds) ==
    RunOf(seg, cmds) /\ Len(seg) = Len(cmds) /\ \A i \in DOMAIN seg : seg[i].err = Nil

\* the file leaves under the node, in traversal order
LeafFiles(node) ==
    LET leaves == SelectSeq(node.Children, LAMBDA n : n.File # NoFile)
    IN  [k \in DOMAIN leaves |-> leaves[k].File]

\* the position in calls of the k-th call of the ForEachFile callback
CallbackAt(k) ==
    CHOOSE p \in CallsOfKind("ForEachFile.cb") :
        Cardinality({q \in CallsOfKind("ForEachFile.cb") : q <= p}) = k

\* the calls made by the k-th call of the callback
CallbackCalls(k) ==
    SubSeq(calls, CallbackAt(k) + 1,
           IF k < Cardinality(CallsOfKind("ForEachFile.cb"))
           THEN CallbackAt(k + 1) - 1 ELSE Len(calls))

\* the k-th call of the callback is a DiscardAllFileChanges of that file
IsDiscardOf(k, file) ==
    /\ calls[CallbackAt(k)].arg = file.Name
    /\ IF file.PreviousName # ""
       THEN /\ CallbackCalls(k) # <<>>
            /\ CallbackCalls(k)[1].kind = "Load" /\ CallbackCalls(k)[1].arg = "NoRenames"
       ELSE RunOf(CallbackCalls(k), ExpectedCmds(file))

\* C12, as claimed: DiscardAllDirChanges calls DiscardAllFileChanges on every
\* file leaf under the node exactly once, whatever the states of the leaves.
C12_EveryLeafDiscardedOnce ==
    Done("DiscardAllDirChanges") =>
        LET leaves == LeafFiles(op.node)
        IN  /\ Cardinality(CallsOfKind("ForEachFile.cb")) = Len(leaves)
            /\ \A k \in DOMAIN leaves : IsDiscardOf(k, leaves[k])

\* C12, amended: DiscardAllDirChanges calls DiscardAllFileChanges on the file
\* leaves under the node in traversal order, each at most once and with no
\* leaf skipped, up to and including the first leaf whose discard returns an
\* error, which is what it returns; when no discard fails every leaf is
\* discarded exactly once and nil is returned.
C12_LeavesDiscardedUntilFailure ==
    Done("DiscardAllDirChanges") =>
        LET leaves == LeafFiles(op.node)
            n == Cardinality(CallsOfKind("ForEachFile.cb"))
        IN  /\ n <= Len(leaves)
            /\ \A k \in 1..n : IsDiscardOf(k, leaves[k])
            /\ \A k \in 1..n :
                  (k < n /\ leaves[k].PreviousName = "") =>
                      CompleteRunOf(CallbackCalls(k), ExpectedCmds(leaves[k]))
            /\ \A i \in DOMAIN calls : calls[i].err # Nil => i = Len(calls)
            /\ result = Nil => n = Len(leaves)
            /\ n < Len(leaves) => result # Nil
            /\ (calls # <<>> /\ LastErr(calls) # Nil) => result = LastErr(calls)

\* two leaves of different states, both discarded, the first one with two
\* commands
C12_Witness ==
    /\ Done("DiscardAllDirChanges")
    /\ Len(LeafFiles(op.node)) = 2
    /\ LeafFiles(op.node)[1].ShortStatus # LeafFiles(op.node)[2].ShortStatus
    /\ Cardinality(CallsOfKind("ForEachFile.cb")) = 2
    /\ CallbackAt(2) = 4
    /\ result = Nil

\* C13: Ignore only appends and does not deduplicate: a call that succeeds
\* lengthens the ignore-list file by exactly one line, the filename, and
\* leaves the earlier lines as they were (so n successful calls with one
\* filename leave n copies); the call fails iff the append fails, the append
\* is the only call it makes (no version-control command), and no other
\* operation changes the file.
C13_IgnoreAppendsOneLine ==
    [][(pc = "idle" /\ pc' = "done") =>
          IF op'.name = "Ignore"
          THEN /\ calls' = <<[kind |-> "AppendLineToFile",
                              arg |-> [file |-> ".gitignore", line |-> op'.filename],
                              err |-> result']>>
               /\ (result' # Nil) = (1 \in op'.fail)
               /\ gitignore' = IF result' = Nil THEN Append(gitignore, op'.filename)
                               ELSE gitignore
          ELSE gitignore' = gitignore]_vars

\* the second successful Ignore of a name already in the file: two copies
C13_Witness ==
    /\ Done("Ignore") /\ op.filename = "a.txt" /\ result = Nil
    /\ gitignore = <<"a.txt", "a.txt">>

\* C14: when the two halves of a rename resolve, the before half (the
\* record named previous-name) is discarded to the end and only then the
\* after half (the record named as the rename); when the discard of the
\* before half fails its error is returned and nothing is issued for the
\* after half; nothing is issued to undo what was issued.
C14_BeforeHalfThenAfterHalf ==
    (DoneRename /\ ~Unresolvable(op.loaded, op.file)) =>
        LET before == ExpectedCmds(Matched(op.loaded, op.file.PreviousName))
            after == ExpectedCmds(Matched(op.loaded, op.file.Name))
            issued == SubSeq(calls, 2, Len(calls))
        IN  /\ calls[1].kind = "Load"
            /\ RunOf(issued, before \o after)
            /\ LastErr(calls) = Nil => Len(issued) = Len(before) + Len(after)
            /\ result = LastErr(calls)

\* the before half takes two commands and the second one failed: nothing
\* follows it for the after half, which has another name
C14_Witness ==
    /\ DoneRename /\ ~Unresolvable(op.loaded, op.file)
    /\ op.file.PreviousName # op.file.Name
    /\ Matched(op.loaded, op.file.PreviousName).ShortStatus = "D "
    /\ Len(calls) = 3 /\ calls[2].err = Nil /\ calls[3].err # Nil
    /\ result = calls[3].err

\* C15: DiscardAllFileChanges returns for every record and every list the
\* status loader may answer with (rename records, several records of one
\* name, one record matched as both halves): a call made by the caller's call
\* makes no further call of DiscardAllFileChanges.
C15_RecursionDepthAtMostOne ==
    Done("DiscardAllFileChanges") =>
        /\ result # ErrTooDeep
        /\ depthReached <= 1
        /\ depthReached = 1 <=> (op.file.PreviousName # "" /\ ~Unresolvable(op.loaded, op.file))

\* a rename of a file to its own name, with two records of that name in the
\* list: the last one is discarded as both halves, one level down
C15_Witness ==
    /\ DoneRename /\ op.file.PreviousName = op.file.Name
    /\ Len(op.loaded) = 2 /\ op.loaded[1].Name = op.loaded[2].Name
    /\ depthReached = 1 /\ result = Nil

\* the sources of the editor in the order they are consulted
EditorSources ==
    <<(<<"GetUserConfig", "OS.EditCommand">>), (<<"GetConfigValue", "core.editor">>),
      (<<"Getenv", "GIT_EDITOR">>), (<<"Getenv", "VISUAL">>), (<<"Getenv", "EDITOR">>),
      (<<"run", "which vi">>)>>

\* what the five sources before the probe answer
EditorAnswers ==
    <<op.env.EditCommand, op.env.CoreEditor, op.env.GIT_EDITOR, op.env.VISUAL, op.env.EDITOR>>

\* the number of sources consulted: up to the first one with an answer, the
\* probe being the last
Consulted ==
    IF \A i \in DOMAIN EditorAnswers : EditorAnswers[i] = "" THEN Len(EditorSources)
    ELSE CHOOSE i \in DOMAIN EditorAnswers :
            EditorAnswers[i] # "" /\ \A j \in 1..(i - 1) : EditorAnswers[j] = ""

\* C16: for a record that is not a rename with a short status other than AA,
\* DU, DD and AU the discard resets the path out of the index iff the record
\* has staged changes or merge conflicts; after a successful or skipped reset
\* it makes exactly one more call, the deletion from disk for an added file
\* and the checkout of the path otherwise; after a failed reset it makes none.
C16_ResetThenOneFinalAction ==
    (DonePlain /\ op.file.ShortStatus \notin {"AA", "DU", "DD", "AU"}) =>
        LET q == Quote(op.file.Name)
            resets == {i \in DOMAIN calls :
                          calls[i].kind = "git" /\ calls[i].arg = "reset -- " \o q}
            deletions == {i \in DOMAIN calls :
                             calls[i].kind = "RemoveFile" /\ calls[i].arg = op.file.Name}
            checkouts == {i \in DOMAIN calls :
                             calls[i].kind = "git" /\ calls[i].arg = "checkout -- " \o q}
        IN  /\ (resets # {}) <=> (op.file.HasStagedChanges \/ op.file.HasMergeConflicts)
            /\ resets \subseteq {1}
            /\ DOMAIN calls = resets \cup deletions \cup checkouts
            /\ IF resets # {} /\ calls[1].err # Nil
               THEN deletions = {} /\ checkouts = {} /\ result = calls[1].err
               ELSE /\ Cardinality(deletions \cup checkouts) = 1
                    /\ IF op.file.Added THEN checkouts = {} ELSE deletions = {}
                    /\ result = LastErr(calls)

\* an added file with merge conflicts and nothing staged: reset, then deleted
C16_Witness ==
    /\ DonePlain /\ op.file.ShortStatus = "UA"
    /\ op.file.Added /\ op.file.HasMergeConflicts /\ ~op.file.HasStagedChanges
    /\ Len(calls) = 2 /\ calls[1].kind = "git" /\ calls[2].kind = "RemoveFile"
    /\ result = Nil

\* C17: EditFileCmdObj consults its sources in order and only while every
\* source before was empty; the vi probe is run iff the user's edit command,
\* core.editor, GIT_EDITOR, VISUAL and EDITOR are all empty, and no other
\* command is executed: the editor command is built, not run.
C17_EditorSourcesLazy ==
    Done("EditFileCmdObj") =>
        /\ Len(calls) = Consulted
        /\ \A i \in DOMAIN calls :
              calls[i].kind = EditorSources[i][1] /\ calls[i].arg = EditorSources[i][2]
        /\ (CallsOfKind("run") # {}) <=> (\A i \in DOMAIN EditorAnswers : EditorAnswers[i] = "")
        /\ CallsOfKind("git") = {}

\* core.editor is the first source with an answer: the three environment
\* variables, all set, are not read and the probe is not run
C17_Witness ==
    /\ Done("EditFileCmdObj")
    /\ op.env.EditCommand = "" /\ op.env.CoreEditor = "nano"
    /\ op.env.GIT_EDITOR = "emacs" /\ op.env.VISUAL = "emacs" /\ op.env.EDITOR = "emacs"
    /\ Len(calls) = 2 /\ calls[2].kind = "GetConfigValue"
    /\ cmdObj.mode = "shell"

\* C18: DiscardUnstagedFileChanges issues exactly one command, the checkout
\* of the record's path, and returns its result, whatever the status and the
\* flags of the record: no reset, add, rm or deletion from disk.
C18_UnstagedDiscardOneCheckout ==
    Done("DiscardUnstagedFileChanges") =>
        /\ calls = <<[kind |-> "git", arg |-> "checkout -- " \o Quote(op.file.Name),
                      err |-> result]>>
        /\ (result # Nil) <=> (1 \in op.fail)

\* an added rename record with staged changes and status AA
C18_Witness ==
    /\ Done("DiscardUnstagedFileChanges")
    /\ op.file.PreviousName # "" /\ op.file.ShortStatus = "AA"
    /\ op.file.Added /\ op.file.HasStagedChanges
    /\ Len(calls) = 1 /\ result = Nil

\* C19: when the halves of a rename do not resolve (no record of the previous
\* name or of the name in the no-renames list, or a matched record that is
\* itself a rename) DiscardAllFileChanges returns the resolution error having
\* made the reload and nothing else: no command and no deletion from disk.
C19_FailedResolutionIssuesNothing ==
    (DoneRename /\ Unresolvable(op.loaded, op.file)) =>
        /\ calls = <<[kind |-> "Load", arg |-> "NoRenames", err |-> Nil]>>
        /\ result = IF HasNamed(op.loaded, op.file.PreviousName)
                       /\ HasNamed(op.loaded, op.file.Name)
                    THEN ErrNestedRename ELSE ErrHalfMissing

\* both halves are found and one of them is a rename itself
C19_Witness ==
    /\ DoneRename /\ Unresolvable(op.loaded, op.file)
    /\ HasNamed(op.loaded, op.file.PreviousName) /\ HasNamed(op.loaded, op.file.Name)
    /\ op.file.PreviousName # op.file.Name
    /\ Len(calls) = 1 /\ result = ErrNestedRename

\* C20: when the query of the submodule configurations fails ResetAndClean
\* returns its error having called nothing else: no stash-and-reset, no hard
\* reset and no removal of untracked files.
C20_ConfigsErrorStopsResetAndClean ==
    (Done("ResetAndClean") /\ 1 \in op.fail) =>
        /\ calls = <<[kind |-> "GetConfigs", arg |-> "", err |-> result]>>
        /\ result # Nil

\* the query failed with submodules configured and nothing else set to fail
C20_Witness ==
    /\ Done("ResetAndClean")
    /\ op.fail = {1} /\ op.nSubmodules > 0
    /\ Len(calls) = 1 /\ calls[1].kind = "GetConfigs" /\ result # Nil

====
